---- MODULE Spec2Model ----
(***************************************************************************)
(* Session controller of the Agentforce custom chat client: the useChat    *)
(* React hook in its two variants (server-sent-event stream, interval      *)
(* polling) together with the useSalesforceMessaging backend calls.        *)
(*                                                                         *)
(* React state is the rendered state: a handler's state updates and the    *)
(* render and effect commit that follow it are one step.  A function made  *)
(* by useCallback keeps the state values of the render that made it; the   *)
(* model keeps those captured values (cConn for isConnected, cLoading for  *)
(* isLoading) wherever such a function is stored: in a pending timer, in   *)
(* the listeners of an event source, in a startChat call awaiting          *)
(* initialize.  Message timestamps are left out.                           *)
(*                                                                         *)
(* A behaviour is a run of at most MaxSteps handlers; steps, lastOp,       *)
(* closed, watched, quiet and onClosed are history variables that no       *)
(* handler reads.  SpecClock runs the hook over a simulated clock;         *)
(* SpecEndpoint runs the serverless handler behind /api/chat/initialize    *)
(* on its own, and SpecSse the one behind /api/chat/sse.                   *)
(***************************************************************************)
EXTENDS Integers, Sequences, FiniteSets, TLC

\* ------------------------------------------------------------------ bounds
MaxSteps == 8       \* handler runs of one behaviour
MaxStarts == 2      \* startChat invocations, the one of the mount effect included
MaxLen == 3         \* length of the message list
MaxPending == 2     \* backend calls in flight at one time, of all kinds together
MaxBackend == 1     \* bot messages the backend holds per conversation
MaxBatch == 2       \* entries of one poll response or one participant event
TimeoutTicks == 2   \* ticks of the simulated clock that make one INACTIVITY_TIMEOUT
MaxRequests == 2    \* requests the initialize endpoint serves in one behaviour
MaxChunks == 2      \* chunks the SSE proxy relays for one request

\* --------------------------------------------------------------- constants
NULL == "null"
NoRef == 0
NoWatch == [id |-> 0, before |-> <<>>]
Variants == {"stream", "poll"}
Contents == {"Hi"}
Names == {"Agent Smith"}
ErrStart == "Failed to start chat"
ErrSend == "Failed to send message"
ErrClose == "Failed to close chat"
InactivityText == "Chat ended due to inactivity"
BotText == "reply"

\* The fields of MessagingCredentials, and the fields of the body with which the
\* initialize endpoints answer 200.
RequiredFields == {"accessToken", "conversationId", "orgId", "lastEventId"}
InitializeResponses == {{"accessToken", "conversationId"}}

Starts == 1..MaxStarts

\* The backend's message ids are unique over all conversations: message i of
\* conversation c.  crypto.randomUUID() yields ids disjoint from them.
BackendId(c, i) == 10 * c + i
UuidBase == 100
Uuids == (UuidBase + 1)..(UuidBase + (MaxLen + 1) * (MaxPending + 1))

VARIABLES
  variant,          \* which useChat is built: "stream" or "poll"
  messages,         \* useState<Message[]>
  isConnected,      \* useState(false)
  isLoading,        \* useState(false): the response-pending flag
  isTyping,         \* useState(false)
  currentAgent,     \* useState<string | null>
  error,            \* useState<string | null>
  eventSourceRef,   \* the start whose EventSource the ref holds, or NoRef
  credsRef,         \* the conversation whose credentials the ref holds, or NoRef
  credsFields,      \* the fields the object in credsRef holds
  timeoutRef,       \* the handle of the timer the ref holds, or NoRef
  timers,           \* the setTimeout timers still pending, with the isConnected each captured
  pollingRef,       \* the interval handle the ref holds, or NoRef
  isInitializedRef, \* the mount effect has run
  cleanupPending,   \* the mount effect's cleanup has not run yet
  eventSources,     \* every EventSource made: its readyState and its listeners' closure
  intervals,        \* the setInterval handles that are still running
  inits,            \* startChat calls awaiting initialize(), with their closure
  numStarts,        \* startChat calls made so far
  sends,            \* ids of the messages whose sendMessageToApi call is in flight
  closes,           \* closeChat calls awaiting closeChatApi
  wdCalls,          \* inactivity callbacks awaiting closeChatApi
  polls,            \* poll fetches in flight, per conversation whose credentials they carry
  closed,           \* history: what completed a close since the last startChat, or NULL
  watched,          \* history: the oldest pending send and the list before it was called
  steps,            \* history: handler runs (and clock ticks) so far
  lastOp,           \* history: the handler that ran last
  timed,            \* the behaviour runs over the simulated clock
  quiet,            \* history: clock ticks since a handler other than QuietOps ran
  onClosed,         \* the handler that ran last has called the onClosed it was given
  endpoint,         \* the initialize endpoint: the request it serves and what it sent
  sse               \* the SSE proxy endpoint: the request it serves, its response and heartbeat

\* The variables by the way the handlers use them.
shown == <<messages, isTyping, currentAgent, error>>
rendered == <<isConnected, isLoading, cleanupPending, eventSources, timeoutRef, timers>>
refs == <<eventSourceRef, credsRef, credsFields, pollingRef, isInitializedRef>>
polling == <<intervals, polls>>
starts == <<inits, numStarts>>
closing == <<closes, wdCalls>>
sending == <<sends, watched>>

history == <<steps, lastOp, timed, quiet, onClosed>>

client == <<variant, shown, rendered, refs, polling, starts, closing, sending, closed, history>>

vars == <<client, endpoint, sse>>

\* The handlers that call onClosed(): the rest of closeChat after closeChatApi
\* has resolved.
CallsOnClosed == {"CloseResolve"}

\* Handler op runs: one more step of the behaviour.
\* active tells whether the run ends a quiet period.
Ran(op, active) ==
  /\ steps < MaxSteps
  /\ steps' = steps + 1
  /\ lastOp' = op
  /\ timed' = timed
  /\ quiet' = IF active THEN 0 ELSE quiet
  /\ onClosed' = (op \in CallsOnClosed)
  /\ endpoint' = endpoint
  /\ sse' = sse

\* The handlers of the inactivity timer and of the poll cycle: they are no
\* activity of the user or the agent and no step of starting or closing a session.
QuietOps == {"timeoutFired", "TimeoutCloseResolve", "TimeoutCloseReject",
             "pollMessages", "PollFail"}

Did(op) == Ran(op, op \notin QuietOps)

\* ------------------------------------------------------------------ helpers
Ids(ms) == {ms[i].id : i \in 1..Len(ms)}

Message(id, type, content) == [id |-> id, type |-> type, content |-> content]

NoSource == [state |-> "none", cLoading |-> FALSE, cConn |-> FALSE]
ClosedSource == [state |-> "closed", cLoading |-> FALSE, cConn |-> FALSE]

RECURSIVE Sum(_, _)
Sum(f, S) == IF S = {} THEN 0
             ELSE LET x == CHOOSE y \in S : TRUE IN f[x] + Sum(f, S \ {x})

PollsInFlight == Sum(polls, Starts)

\* The backend calls in flight: initialize, send, close (of closeChat and of the
\* inactivity timer) and poll fetches.
Pending == Cardinality(inits) + Cardinality(sends) + closes + wdCalls + PollsInFlight
CanCall == Pending < MaxPending

\* crypto.randomUUID(): the first id that no stored message, no pending send and no
\* remembered list holds.
UsedUuids(ms) == Ids(ms) \cup sends \cup Ids(watched.before)
randomUUID(ms) ==
  CHOOSE u \in Uuids : /\ u \notin UsedUuids(ms)
                       /\ \A v \in Uuids : v < u => v \in UsedUuids(ms)

\* The template strings `${entry.displayName} has joined the chat` and
\* `${entry.displayName} has left the chat`, over the names of the model.
JoinedText(name) == IF name = "Agent Smith" THEN "Agent Smith has joined the chat"
                    ELSE "has joined the chat"
LeftText(name) == IF name = "Agent Smith" THEN "Agent Smith has left the chat"
                  ELSE "has left the chat"

\* String.prototype.toLowerCase on the role names the backend sends.
toLowerCase(role) ==
  CASE role = "Chatbot" -> "chatbot"
    [] role = "Agent" -> "agent"
    [] role = "EndUser" -> "enduser"
    [] OTHER -> role

\* EventSource.close(): the readyState becomes CLOSED and no listener runs again
\* (so the closure the listeners held is dropped); closing twice is allowed.
CloseSource(srcs, k) ==
  IF k = NoRef THEN srcs ELSE [srcs EXCEPT ![k] = ClosedSource]

LiveSources == {k \in Starts : eventSources[k].state \in {"connecting", "open"}}

\* ------------------------------------------------------- the inactivity timer
\* A clearTimeout that cancels nothing.
clearNothing(ts, h) == ts

\* clearTimeout(h) on the pending timers ts: the timer of that handle is gone; a
\* handle of no pending timer (null, or a timer that has fired) cancels nothing.
clearTimeout(ts, h) == {x \in ts : x.h # h}

\* The handle setTimeout returns: one that no pending timer has.
newHandle(ts) ==
  CHOOSE n \in 1..(Cardinality(ts) + 1) :
    /\ \A x \in ts : x.h # n
    /\ \A g \in 1..(n - 1) : \E x \in ts : x.h = g

\* The ref and the pending timers as they are.
timeouts == [ref |-> timeoutRef, pending |-> timers]

\* resetTimeout of a render in which isConnected was c: clearTimeout on the handle
\* the ref holds, then setTimeout of a callback that reads that c, whose handle
\* goes into the ref.  Over the simulated clock the timer is due after
\* TimeoutTicks ticks; without the clock it can fire at any time.
resetTimeout(c) ==
  LET rest == clearTimeout(timers, timeoutRef)
      h == newHandle(rest)
  IN [ref |-> h,
      pending |-> rest \cup {[h |-> h, cConn |-> c,
                               left |-> IF timed THEN TimeoutTicks ELSE 0]}]

\* --------------------------------------------- render commit and mount effect
\* The stream variant's mount effect lists isLoading and the callbacks made from
\* isConnected and isLoading among its dependencies.  The first render in which
\* one of the two differs runs the cleanup the first effect run returned (it closes
\* eventSourceRef.current and clears timeoutRef.current); the effect then runs again,
\* returns at the isInitializedRef test and leaves no cleanup behind.  The poll
\* variant's effect depends on startChat alone, which never changes.
DepsChange(conn, load) ==
  /\ variant = "stream"
  /\ cleanupPending
  /\ (conn # isConnected \/ load # isLoading)

Commit(conn, load, srcs, tm) ==
  /\ isConnected' = conn
  /\ isLoading' = load
  /\ cleanupPending' = (cleanupPending /\ ~DepsChange(conn, load))
  /\ eventSources' = IF DepsChange(conn, load) THEN CloseSource(srcs, eventSourceRef) ELSE srcs
  /\ timeoutRef' = IF DepsChange(conn, load) THEN NoRef ELSE tm.ref
  /\ timers' = IF DepsChange(conn, load) THEN clearTimeout(tm.pending, tm.ref) ELSE tm.pending

\* ------------------------------------------------------------------- Init
InitState ==
  /\ variant \in Variants
  /\ messages = <<>>
  /\ isConnected = FALSE
  /\ isLoading = FALSE
  /\ isTyping = FALSE
  /\ currentAgent = NULL
  /\ error = NULL
  /\ eventSourceRef = NoRef
  /\ credsRef = NoRef
  /\ credsFields = {}
  /\ timeoutRef = NoRef
  /\ timers = {}
  /\ pollingRef = NoRef
  /\ isInitializedRef = FALSE
  /\ cleanupPending = FALSE
  /\ eventSources = [k \in Starts |-> NoSource]
  /\ intervals = {}
  /\ inits = {}
  /\ numStarts = 0
  /\ sends = {}
  /\ closes = 0
  /\ wdCalls = 0
  /\ polls = [k \in Starts |-> 0]
  /\ closed = NULL
  /\ watched = NoWatch
  /\ steps = 0
  /\ lastOp = NULL
  /\ quiet = 0
  /\ onClosed = FALSE

\* The initialize endpoint before any request.  which tells the handler deployed:
\* "initialize" (api/chat/initialize.ts) or "initializeWithConversation" (the
\* handler that creates the conversation).
Endpoint(which) ==
  [which |-> which, pc |-> "idle", method |-> NULL, env |-> FALSE, token |-> NULL,
   tokenFields |-> {}, conversation |-> NULL, sent |-> <<>>, served |-> 0]

NoEndpoint == Endpoint(NULL)

\* A request to the SSE proxy as it reaches the handler: its method, whether
\* SALESFORCE_SCRT_URL is set, and the query parameters it carries.
SseRequest(method, env, params) ==
  [pc |-> "entry", method |-> method, env |-> env, params |-> params,
   heartbeat |-> FALSE, ended |-> FALSE, open |-> TRUE, chunks |-> 0, late |-> FALSE]

NoSse == [SseRequest(NULL, FALSE, {}) EXCEPT !.pc = "idle"]

Init == InitState /\ timed = FALSE /\ endpoint = NoEndpoint /\ sse = NoSse

\* ------------------------------------------------------------ mount effect
\* The effect of the first render, as a production build of React runs it (no
\* StrictMode double invocation): isInitializedRef is set, startChat() is called
\* with the callbacks of that render (isConnected and isLoading both false), and
\* the cleanup the effect returns stays pending.  In the poll variant that cleanup
\* runs at unmount only, which ends the behaviours modelled here.
Mount ==
  /\ Did("Mount")
  /\ ~isInitializedRef
  /\ isInitializedRef' = TRUE
  /\ cleanupPending' = (variant = "stream")
  /\ messages' = <<>>
  /\ isLoading' = FALSE
  /\ isTyping' = FALSE
  /\ currentAgent' = NULL
  /\ error' = NULL
  /\ numStarts' = numStarts + 1
  /\ inits' = inits \cup {[k |-> numStarts + 1, cLoading |-> FALSE, cConn |-> FALSE]}
  /\ closed' = NULL
  /\ UNCHANGED <<variant, isConnected, eventSources, timeoutRef, timers, eventSourceRef, credsRef, credsFields,
                 pollingRef, polling, closing, sending>>

\* ---------------------------------------------------------------- startChat
\* A startChat that forgets setMessages([]) and setError(null).
startChatKeepsList ==
  /\ Did("startChat")
  /\ isInitializedRef
  /\ numStarts < MaxStarts
  /\ CanCall
  /\ isTyping' = FALSE
  /\ currentAgent' = NULL
  /\ numStarts' = numStarts + 1
  /\ inits' = inits \cup
       {[k |-> numStarts + 1,
         cLoading |-> (variant = "stream" /\ isLoading),
         cConn |-> (variant = "stream" /\ isConnected)]}
  /\ Commit(isConnected, FALSE, CloseSource(eventSources, eventSourceRef), timeouts)
  /\ closed' = NULL
  /\ UNCHANGED <<variant, messages, error, refs, polling, closing, sending>>

\* startNewChat from the UI: the startChat of the current render, up to the await
\* of initialize().  Its closure is the current isLoading and isConnected (in the
\* poll variant startChat captures neither).
startChat ==
  /\ Did("startChat")
  /\ isInitializedRef
  /\ numStarts < MaxStarts
  /\ CanCall
  /\ messages' = <<>>
  /\ isTyping' = FALSE
  /\ currentAgent' = NULL
  /\ error' = NULL
  /\ numStarts' = numStarts + 1
  /\ inits' = inits \cup
       {[k |-> numStarts + 1,
         cLoading |-> (variant = "stream" /\ isLoading),
         cConn |-> (variant = "stream" /\ isConnected)]}
  /\ Commit(isConnected, FALSE, CloseSource(eventSources, eventSourceRef), timeouts)
  /\ closed' = NULL
  /\ UNCHANGED <<variant, refs, polling, closing, sending>>

\* setupEventSource and setupEventHandlers: a new EventSource, connecting, whose
\* listeners are those of the render that made this startChat.
setupEventSource(srcs, i) ==
  [srcs EXCEPT ![i.k] = [state |-> "connecting", cLoading |-> i.cLoading, cConn |-> i.cConn]]

\* startPolling, the interval part: a running interval the ref holds is cleared
\* and a new one set.
startPolling(ivs, ref, k) == (ivs \ {ref}) \cup {k}

\* initialize() resolved with a body of the fields given: the rest of startChat's
\* try block.  initialize() returns response.json() as it is.
InitResolve(i, fields) ==
  /\ Did("InitResolve")
  /\ i \in inits
  /\ inits' = inits \ {i}
  /\ credsRef' = i.k
  /\ credsFields' = fields
  /\ IF variant = "stream"
       THEN /\ eventSourceRef' = i.k
            /\ Commit(isConnected, isLoading, setupEventSource(eventSources, i), timeouts)
            /\ UNCHANGED <<pollingRef, polling>>
       ELSE /\ intervals' = startPolling(intervals, pollingRef, i.k)
            /\ pollingRef' = i.k
            /\ polls' = [polls EXCEPT ![i.k] = @ + 1]
            /\ Commit(TRUE, isLoading, eventSources, timeouts)
            /\ UNCHANGED eventSourceRef
  /\ UNCHANGED <<variant, shown, isInitializedRef, numStarts, closing, sending, closed>>

\* A catch of startChat that calls initialize() once more instead of giving up.
InitRejectRetries(i) ==
  /\ Did("InitReject")
  /\ i \in inits
  /\ error' = ErrStart
  /\ Commit(FALSE, isLoading, eventSources, timeouts)
  /\ UNCHANGED <<variant, messages, isTyping, currentAgent, refs, polling, starts,
                 closing, sending, closed>>

\* initialize() rejected (the fetch failed or the response was not ok): the catch.
InitReject(i) ==
  /\ Did("InitReject")
  /\ i \in inits
  /\ inits' = inits \ {i}
  /\ error' = ErrStart
  /\ Commit(FALSE, isLoading, eventSources, timeouts)
  /\ UNCHANGED <<variant, messages, isTyping, currentAgent, refs, polling, numStarts,
                 closing, sending, closed>>

\* -------------------------------------------------------------- sendMessage
\* A rollback that filters nothing out.
RemoveNothing(ms, id) == ms

\* A rollback that selects by content: every message with the text of the failed
\* one goes.
RemoveSameContent(ms, id) ==
  SelectSeq(ms, LAMBDA m : \A n \in 1..Len(ms) : ms[n].id = id => m.content # ms[n].content)

\* prev.filter((m) => m.id !== message.id)
RemoveId(ms, id) == SelectSeq(ms, LAMBDA m : m.id # id)

\* A sendMessage without the credentials test of its first line.
sendMessageUnguarded(content) ==
  /\ Did("sendMessage")
  /\ isInitializedRef
  /\ Len(messages) < MaxLen
  /\ CanCall
  /\ LET message == Message(randomUUID(messages), "user", content) IN
       /\ messages' = Append(messages, message)
       /\ sends' = sends \cup {message.id}
       /\ watched' = IF watched = NoWatch
                       THEN [id |-> message.id, before |-> messages]
                       ELSE watched
  /\ Commit(isConnected, TRUE, eventSources, resetTimeout(isConnected))
  /\ UNCHANGED <<variant, isTyping, currentAgent, error, refs, polling, starts, closing,
                 closed>>

\* A sendMessage that leaves the inactivity timer alone.
sendMessageNoReset(content) ==
  /\ Did("sendMessage")
  /\ isInitializedRef
  /\ IF credsRef = NoRef
       THEN UNCHANGED <<messages, rendered, sending>>
       ELSE /\ Len(messages) < MaxLen
            /\ CanCall
            /\ LET message == Message(randomUUID(messages), "user", content) IN
                 /\ messages' = Append(messages, message)
                 /\ sends' = sends \cup {message.id}
                 /\ watched' = IF watched = NoWatch
                                 THEN [id |-> message.id, before |-> messages]
                                 ELSE watched
            /\ Commit(isConnected, TRUE, eventSources, timeouts)
  /\ UNCHANGED <<variant, isTyping, currentAgent, error, refs, polling, starts, closing,
                 closed>>

sendMessage(content) ==
  /\ Did("sendMessage")
  /\ isInitializedRef
  /\ IF credsRef = NoRef
       THEN UNCHANGED <<messages, rendered, sending>>
       ELSE /\ Len(messages) < MaxLen
            /\ CanCall
            /\ LET message == Message(randomUUID(messages), "user", content) IN
                 /\ messages' = Append(messages, message)
                 /\ sends' = sends \cup {message.id}
                 /\ watched' = IF watched = NoWatch
                                 THEN [id |-> message.id, before |-> messages]
                                 ELSE watched
            /\ Commit(isConnected, TRUE, eventSources, resetTimeout(isConnected))
  /\ UNCHANGED <<variant, isTyping, currentAgent, error, refs, polling, starts, closing,
                 closed>>

\* sendMessageToApi resolved: nothing is left to do.
SendResolve(s) ==
  /\ Did("SendResolve")
  /\ s \in sends
  /\ sends' = sends \ {s}
  /\ watched' = IF watched.id = s THEN NoWatch ELSE watched
  /\ UNCHANGED <<variant, shown, rendered, refs, polling, starts, closing, closed>>

\* A catch that treats the failed send as the end of the session.
SendRejectDisconnects(s) ==
  /\ Did("SendReject")
  /\ s \in sends
  /\ sends' = sends \ {s}
  /\ watched' = IF watched.id = s THEN NoWatch ELSE watched
  /\ error' = ErrSend
  /\ messages' = RemoveId(messages, s)
  /\ Commit(FALSE, FALSE, eventSources, timeouts)
  /\ UNCHANGED <<variant, isTyping, currentAgent, refs, polling, starts, closing, closed>>

\* sendMessageToApi rejected: the catch.
SendReject(s) ==
  /\ Did("SendReject")
  /\ s \in sends
  /\ sends' = sends \ {s}
  /\ watched' = IF watched.id = s THEN NoWatch ELSE watched
  /\ error' = ErrSend
  /\ messages' = RemoveId(messages, s)
  /\ Commit(isConnected, FALSE, eventSources, timeouts)
  /\ UNCHANGED <<variant, isTyping, currentAgent, refs, polling, starts, closing, closed>>

\* ---------------------------------------------------------------- closeChat
\* closeChat up to the await of closeChatApi.  Without credentials it returns at
\* once.  The poll variant clears the interval the ref holds; the stream variant
\* leaves the event source as it is.
closeChat ==
  /\ Did("closeChat")
  /\ isInitializedRef
  /\ IF credsRef = NoRef
       THEN UNCHANGED <<pollingRef, intervals, closes>>
       ELSE /\ CanCall
            /\ closes' = closes + 1
            /\ IF variant = "poll" /\ pollingRef # NoRef
                 THEN /\ intervals' = intervals \ {pollingRef}
                      /\ pollingRef' = NoRef
                 ELSE UNCHANGED <<pollingRef, intervals>>
  /\ UNCHANGED <<variant, shown, rendered, eventSourceRef, credsRef, credsFields, isInitializedRef,
                 polls, starts, wdCalls, sending, closed>>

\* closeChatApi resolved: the state is cleared and onClosed() called.
CloseResolve ==
  /\ Did("CloseResolve")
  /\ closes > 0
  /\ closes' = closes - 1
  /\ isTyping' = FALSE
  /\ currentAgent' = NULL
  /\ messages' = <<>>
  /\ error' = NULL
  /\ Commit(FALSE, FALSE, eventSources, timeouts)
  /\ closed' = "closeChat"
  /\ UNCHANGED <<variant, refs, polling, starts, wdCalls, sending>>

\* closeChatApi rejected: the catch.
CloseReject ==
  /\ Did("CloseReject")
  /\ closes > 0
  /\ closes' = closes - 1
  /\ error' = ErrClose
  /\ UNCHANGED <<variant, messages, isTyping, currentAgent, rendered, refs, polling,
                 starts, wdCalls, sending, closed>>

\* ------------------------------------------------- stream variant: listeners
\* What the backend can deliver as a CONVERSATION_MESSAGE event on the event
\* source of conversation c: a well-formed chatbot message, a well-formed entry of
\* another sender, event data that does not parse, and a chatbot entry whose
\* entryPayload does not parse or lacks its fields.
MessageEvents(c) ==
  {[shape |-> "bot", id |-> BackendId(c, i)] : i \in 1..MaxBackend}
    \cup {[shape |-> sh, id |-> 0] : sh \in {"other", "badData", "badPayload"}}

\* events.onopen
onopen(k) ==
  /\ Did("onopen")
  /\ eventSources[k].state = "connecting"
  /\ error' = NULL
  /\ Commit(TRUE, isLoading, [eventSources EXCEPT ![k].state = "open"],
            resetTimeout(eventSources[k].cConn))
  /\ UNCHANGED <<variant, messages, isTyping, currentAgent, refs, polling, starts,
                 closing, sending, closed>>

\* events.onerror: the browser either reconnects (CONNECTING) or gives up (CLOSED).
onerror(k, next) ==
  /\ Did("onerror")
  /\ eventSources[k].state \in {"connecting", "open"}
  /\ Commit(FALSE, isLoading,
            IF next = "closed" THEN CloseSource(eventSources, k)
            ELSE [eventSources EXCEPT ![k].state = "connecting"],
            timeouts)
  /\ UNCHANGED <<variant, shown, refs, polling, starts, closing, sending, closed>>

\* handleMessage, as registered on event source k.
handleMessage(k, ev) ==
  /\ Did("handleMessage")
  /\ eventSources[k].state = "open"
  /\ CASE ev.shape = "bot" ->
            /\ Len(messages) < MaxLen
            /\ isTyping' = FALSE
            /\ messages' = Append(messages, Message(ev.id, "ai", BotText))
            /\ Commit(isConnected, FALSE, eventSources, resetTimeout(eventSources[k].cConn))
       [] ev.shape = "badPayload" ->
            /\ isTyping' = FALSE
            /\ UNCHANGED <<messages, rendered>>
       [] OTHER ->
            UNCHANGED <<messages, isTyping, rendered>>
  /\ UNCHANGED <<variant, currentAgent, error, refs, polling, starts, closing, sending,
                 closed>>

\* The entries of a CONVERSATION_PARTICIPANT_CHANGED event; ok = FALSE is an entry
\* without its participant field.
Entry(op, role, name, ok) ==
  [operation |-> op, role |-> role, displayName |-> name, ok |-> ok]

ParticipantEntries ==
  UNION {{Entry("add", "Chatbot", n, TRUE), Entry("add", "Agent", n, TRUE),
          Entry("add", "EndUser", n, TRUE), Entry("remove", "agent", n, TRUE),
          Entry("remove", "Agent", n, TRUE), Entry("add", "Chatbot", n, FALSE)} : n \in Names}

Batches(S) == UNION {[1..n -> S] : n \in 0..MaxBatch}

\* One entry of the forEach of handleParticipantChange, on the roster and list so far.
applyEntry(e, st) ==
  LET added == e.operation = "add" /\ toLowerCase(e.role) = "chatbot"
      st1 == IF added
               THEN [agent |-> e.displayName,
                     msgs |-> Append(st.msgs, Message(randomUUID(st.msgs), "system",
                                                      JoinedText(e.displayName)))]
               ELSE st
      removed == e.operation = "remove" /\ e.role = "agent"
  IN IF removed
       THEN [agent |-> NULL,
             msgs |-> Append(st1.msgs, Message(randomUUID(st1.msgs), "system",
                                               LeftText(e.displayName)))]
       ELSE st1

\* The forEach: it stops at the first entry that throws, keeping what it did so far.
RECURSIVE applyEntries(_, _)
applyEntries(entries, st) ==
  IF entries = <<>> \/ ~Head(entries).ok THEN st
  ELSE applyEntries(Tail(entries), applyEntry(Head(entries), st))

\* handleParticipantChange, as registered on event source k.
handleParticipantChange(k, entries) ==
  /\ Did("handleParticipantChange")
  /\ eventSources[k].state = "open"
  /\ LET st == applyEntries(entries, [agent |-> currentAgent, msgs |-> messages]) IN
       /\ Len(st.msgs) <= MaxLen
       /\ currentAgent' = st.agent
       /\ messages' = st.msgs
  /\ UNCHANGED <<variant, isTyping, error, rendered, refs, polling, starts, closing,
                 sending, closed>>

\* The CONVERSATION_TYPING_STARTED_INDICATOR listener of event source k: it reads
\* the isLoading of the render that registered it.
typingStarted(k) ==
  /\ Did("typingStarted")
  /\ eventSources[k].state = "open"
  /\ isTyping' = (IF ~eventSources[k].cLoading THEN TRUE ELSE isTyping)
  /\ Commit(isConnected, isLoading, eventSources, resetTimeout(eventSources[k].cConn))
  /\ UNCHANGED <<variant, messages, currentAgent, error, refs, polling, starts, closing,
                 sending, closed>>

\* The CONVERSATION_TYPING_STOPPED_INDICATOR listener.
typingStopped(k) ==
  /\ Did("typingStopped")
  /\ eventSources[k].state = "open"
  /\ isTyping' = FALSE
  /\ UNCHANGED <<variant, messages, currentAgent, error, rendered, refs, polling, starts,
                 closing, sending, closed>>

\* --------------------------------------------------- poll variant: pollMessages
\* What the entries operation can return for conversation c.
PollEntry(type, role, id, ok) == [entryType |-> type, role |-> role, id |-> id, ok |-> ok]

PollEntries(c) ==
  {PollEntry("Message", "Chatbot", BackendId(c, i), TRUE) : i \in 1..MaxBackend}
    \cup {PollEntry("Message", "EndUser", BackendId(c, 0), TRUE),
          PollEntry("Message", "Chatbot", BackendId(c, 0), FALSE),
          PollEntry("ParticipantChanged", "Chatbot", BackendId(c, 0), TRUE)}

\* A tick of a running interval (the immediate call of startPolling is part of
\* InitResolve): pollMessages up to the await of fetch.
pollMessages(h) ==
  /\ Did("pollMessages")
  /\ h \in intervals
  /\ IF credsRef = NoRef
       THEN UNCHANGED polls
       ELSE /\ CanCall
            /\ polls' = [polls EXCEPT ![credsRef] = @ + 1]
  /\ UNCHANGED <<variant, shown, rendered, refs, intervals, starts, closing, sending,
                 closed>>

\* An updater that puts a new message at the head of the list.
addAtHead(prev, id) ==
  IF \E j \in 1..Len(prev) : prev[j].id = id THEN prev
  ELSE <<Message(id, "ai", BotText)>> \o prev

\* An updater without the prev.find test.
addAlways(prev, id) == Append(prev, Message(id, "ai", BotText))

\* The updater of setMessages in pollMessages.
addIfNew(prev, id) ==
  IF \E j \in 1..Len(prev) : prev[j].id = id THEN prev
  ELSE Append(prev, Message(id, "ai", BotText))

\* entries.forEach of pollMessages: the updaters queued before an entry throws
\* are applied; threw tells whether one did.
RECURSIVE ingest(_, _)
ingest(prev, entries) ==
  IF entries = <<>> THEN [msgs |-> prev, threw |-> FALSE]
  ELSE IF ~Head(entries).ok THEN [msgs |-> prev, threw |-> TRUE]
  ELSE ingest(addIfNew(prev, Head(entries).id), Tail(entries))

\* A filter that lets the entries of every sender through.
messageEntries(entries) == SelectSeq(entries, LAMBDA e : e.entryType = "Message")

botEntries(entries) ==
  SelectSeq(entries, LAMBDA e : e.entryType = "Message" /\ e.role = "Chatbot")

\* The fetch of a poll for conversation c failed, or its response was not ok.
PollFail(c) ==
  /\ Did("PollFail")
  /\ polls[c] > 0
  /\ polls' = [polls EXCEPT ![c] = @ - 1]
  /\ UNCHANGED <<variant, shown, rendered, refs, intervals, starts, closing, sending,
                 closed>>

\* A poll handler that takes a ParticipantChanged entry for an agent who joined.
PollResponseWithParticipants(c, entries) ==
  /\ Ran("PollResponse", ingest(messages, botEntries(entries)).msgs # messages)
  /\ polls[c] > 0
  /\ polls' = [polls EXCEPT ![c] = @ - 1]
  /\ currentAgent' = IF \E n \in 1..Len(entries) : entries[n].entryType = "ParticipantChanged"
                        THEN "Agent Smith" ELSE currentAgent
  /\ LET r == ingest(messages, botEntries(entries)) IN
       IF Len(entries) > 0
         THEN /\ Len(r.msgs) <= MaxLen
              /\ messages' = r.msgs
              /\ IF r.threw
                   THEN UNCHANGED <<isTyping, rendered>>
                   ELSE /\ isTyping' = FALSE
                        /\ Commit(isConnected, FALSE, eventSources, timeouts)
         ELSE UNCHANGED <<messages, isTyping, rendered>>
  /\ UNCHANGED <<variant, error, refs, intervals, starts, closing, sending, closed>>

\* The fetch of a poll for conversation c resolved with the entries given.
PollResponse(c, entries) ==
  /\ Ran("PollResponse", ingest(messages, botEntries(entries)).msgs # messages)
  /\ polls[c] > 0
  /\ polls' = [polls EXCEPT ![c] = @ - 1]
  /\ LET r == ingest(messages, botEntries(entries)) IN
       IF Len(entries) > 0
         THEN /\ Len(r.msgs) <= MaxLen
              /\ messages' = r.msgs
              /\ IF r.threw
                   THEN UNCHANGED <<isTyping, rendered>>
                   ELSE /\ isTyping' = FALSE
                        /\ Commit(isConnected, FALSE, eventSources, timeouts)
         ELSE UNCHANGED <<messages, isTyping, rendered>>
  /\ UNCHANGED <<variant, currentAgent, error, refs, intervals, starts, closing, sending,
                 closed>>

\* ------------------------------------------------ the inactivity timer fires
\* The setTimeout callback of resetTimeout up to its await: it reads credsRef as
\* it is now and isConnected as the render that armed the timer had it.
timeoutFired(t) ==
  /\ Did("timeoutFired")
  /\ t \in timers
  /\ t.left = 0
  /\ timers' = timers \ {t}
  /\ timeoutRef' = IF timeoutRef = t.h THEN NoRef ELSE timeoutRef
  /\ IF credsRef = NoRef \/ ~t.cConn
       THEN UNCHANGED wdCalls
       ELSE /\ CanCall
            /\ wdCalls' = wdCalls + 1
  /\ UNCHANGED <<variant, shown, isConnected, isLoading, cleanupPending, eventSources,
                 refs, polling, starts, closes, sending, closed>>

\* closeChatApi of the timer callback resolved.
TimeoutCloseResolve ==
  /\ Did("TimeoutCloseResolve")
  /\ wdCalls > 0
  /\ Len(messages) < MaxLen
  /\ wdCalls' = wdCalls - 1
  /\ messages' = Append(messages, Message(randomUUID(messages), "system", InactivityText))
  /\ Commit(FALSE, isLoading, eventSources, timeouts)
  /\ closed' = "timeout"
  /\ UNCHANGED <<variant, isTyping, currentAgent, error, refs, polling, starts, closes,
                 sending>>

\* closeChatApi of the timer callback rejected: the error is logged.
TimeoutCloseReject ==
  /\ Did("TimeoutCloseReject")
  /\ wdCalls > 0
  /\ wdCalls' = wdCalls - 1
  /\ UNCHANGED <<variant, shown, rendered, refs, polling, starts, closes, sending, closed>>

\* --------------------------------------------------------------------- Next
Next ==
  \/ Mount
  \/ startChat
  \/ \E i \in inits : \E fields \in InitializeResponses : InitResolve(i, fields)
  \/ \E i \in inits : InitReject(i)
  \/ \E c \in Contents : sendMessage(c)
  \/ \E s \in sends : SendResolve(s)
  \/ \E s \in sends : SendReject(s)
  \/ closeChat
  \/ CloseResolve
  \/ CloseReject
  \/ \E k \in Starts : onopen(k)
  \/ \E k \in Starts, next \in {"connecting", "closed"} : onerror(k, next)
  \/ \E k \in Starts : \E ev \in MessageEvents(k) : handleMessage(k, ev)
  \/ \E k \in Starts : \E es \in Batches(ParticipantEntries) : handleParticipantChange(k, es)
  \/ \E k \in Starts : typingStarted(k)
  \/ \E k \in Starts : typingStopped(k)
  \/ \E h \in intervals : pollMessages(h)
  \/ \E c \in Starts : PollFail(c)
  \/ \E c \in Starts : \E es \in Batches(PollEntries(c)) : PollResponse(c, es)
  \/ \E t \in timers : timeoutFired(t)
  \/ TimeoutCloseResolve
  \/ TimeoutCloseReject

Spec == Init /\ [][Next]_vars

\* ------------------------------------------------------- the simulated clock
\* One tick of the clock.  A timer that is due fires before the clock goes on.
Tick ==
  /\ timed
  /\ steps < MaxSteps
  /\ \A t \in timers : t.left > 0
  /\ quiet <= TimeoutTicks
  /\ steps' = steps + 1
  /\ quiet' = quiet + 1
  /\ onClosed' = FALSE
  /\ timers' = {[t EXCEPT !.left = @ - 1] : t \in timers}
  /\ UNCHANGED <<variant, shown, isConnected, isLoading, cleanupPending, eventSources, timeoutRef, refs,
                 polling, starts, closing, sending, closed, lastOp, timed, endpoint, sse>>

InitClock == InitState /\ timed = TRUE /\ endpoint = NoEndpoint /\ sse = NoSse

NextClock == Next \/ Tick

SpecClock == InitClock /\ [][NextClock]_vars

\* -------------------------------------------------- the initialize endpoint
\* The serverless handler behind /api/chat/initialize, serving one request after
\* another; the hook is left as constructed.
Handlers == {"initialize", "initializeWithConversation"}
Methods == {"GET", "OPTIONS", "POST"}
FailText == "Failed to initialize chat"
EnvText == "Missing required environment variables"
MethodText == "Method not allowed"

\* res.status(status).json(body): the fields of the body that are defined and
\* its error text.
Response(status, fields, err) == [status |-> status, fields |-> fields, error |-> err]

\* What the access-token request and the conversation request can come to: the
\* fetch rejects, the response is not ok, its body is no JSON, or it is ok.
TokenOutcomes == {"rejected", "notOk", "badJson", "ok"}
ConversationOutcomes == {"rejected", "notOk", "ok"}

\* The response ends the request.
send(e, r) == [e EXCEPT !.pc = "done", !.sent = Append(@, r), !.served = @ + 1]

\* A request arrives.
Request(method, env) ==
  /\ endpoint.pc \in {"idle", "done"}
  /\ endpoint.served < MaxRequests
  /\ endpoint' = [endpoint EXCEPT !.pc = "entry", !.method = method, !.env = env,
                                  !.token = NULL, !.tokenFields = {},
                                  !.conversation = NULL, !.sent = <<>>]
  /\ UNCHANGED <<client, sse>>

\* handler up to its first await: the method tests and the environment test.
handler ==
  /\ endpoint.pc = "entry"
  /\ endpoint' =
       CASE endpoint.method = "OPTIONS" -> send(endpoint, Response(200, {}, NULL))
         [] endpoint.method # "GET" -> send(endpoint, Response(405, {}, MethodText))
         [] ~endpoint.env -> send(endpoint, Response(500, {}, EnvText))
         [] OTHER -> [endpoint EXCEPT !.pc = "awaitToken"]
  /\ UNCHANGED <<client, sse>>

\* The access-token request came to outcome o, with the fields given in its body.
\* initialize.ts answers from that body; the other handler goes on to create the
\* conversation.
TokenResponse(o, fields) ==
  /\ endpoint.pc = "awaitToken"
  /\ (o # "ok" => fields = {})
  /\ LET e == [endpoint EXCEPT !.token = o, !.tokenFields = fields] IN
       endpoint' =
         IF o # "ok"
           THEN send(e, Response(500, {}, FailText))
         ELSE IF endpoint.which = "initialize"
           THEN send(e, Response(200, fields, NULL))
         ELSE [e EXCEPT !.pc = "awaitConversation"]
  /\ UNCHANGED <<client, sse>>

\* The conversation request came to outcome o.
ConversationResponse(o) ==
  /\ endpoint.pc = "awaitConversation"
  /\ LET e == [endpoint EXCEPT !.conversation = o] IN
       endpoint' =
         IF o # "ok"
           THEN send(e, Response(500, {}, FailText))
           ELSE send(e, Response(200, (endpoint.tokenFields \cap {"accessToken"})
                                          \cup {"conversationId"}, NULL))
  /\ UNCHANGED <<client, sse>>

InitEndpoint ==
  /\ InitState
  /\ timed = FALSE
  /\ endpoint \in {Endpoint(w) : w \in Handlers}
  /\ sse = NoSse

NextEndpoint ==
  \/ \E m \in Methods, env \in BOOLEAN : Request(m, env)
  \/ handler
  \/ \E o \in TokenOutcomes : \E fields \in SUBSET {"accessToken", "conversationId"} :
       TokenResponse(o, fields)
  \/ \E o \in ConversationOutcomes : ConversationResponse(o)

SpecEndpoint == InitEndpoint /\ [][NextEndpoint]_vars

\* ------------------------------------------------------ the SSE proxy endpoint
\* The serverless handler behind /api/chat/sse, serving one request; the hook is
\* left as constructed.
SseParams == {"token", "orgId", "lastEventId"}

\* res.end(), or res.status(...).json(...): the response is ended.
end(r) == [r EXCEPT !.pc = "done", !.ended = TRUE]

\* res.write(...): late tells that something was written to an ended response.
write(r) == [r EXCEPT !.late = @ \/ r.ended]

\* clearInterval(heartbeatInterval)
clearHeartbeat(r) == [r EXCEPT !.heartbeat = FALSE]

\* The request passes the handler's tests: a GET, with SALESFORCE_SCRT_URL set and
\* token, orgId and lastEventId in the query.  Every other request is answered
\* and returned from before the heartbeat and the close listener exist.
accepted(r) == r.method = "GET" /\ r.env /\ r.params = SseParams

\* handler up to its await of fetch: the method, environment and parameter tests,
\* the first write, the heartbeat interval and the close listener.
sseHandler ==
  /\ sse.pc = "entry"
  /\ sse' =
       IF accepted(sse)
         THEN [write(sse) EXCEPT !.pc = "fetch", !.heartbeat = TRUE]
         ELSE end(sse)
  /\ UNCHANGED <<client, endpoint>>

\* What the upstream fetch can come to: it rejects, its response is not ok, its
\* response is ok without a body, or it is ok with a body to read.
FetchOutcomes == {"rejected", "notOk", "noBody", "ok"}

\* The upstream fetch came to outcome o.  A response that is not ok is read as
\* text next; a rejected fetch and a response without body end in the outer catch.
FetchResponse(o) ==
  /\ sse.pc = "fetch"
  /\ sse' =
       CASE o = "ok" -> [sse EXCEPT !.pc = "read"]
         [] o = "notOk" -> [sse EXCEPT !.pc = "text"]
         [] OTHER -> end(write(sse))
  /\ UNCHANGED <<client, endpoint>>

\* response.text() of a response that is not ok has settled: resolved, the error
\* is written and the response ended; rejected, the outer catch does the same.
ErrorText ==
  /\ sse.pc = "text"
  /\ sse' = end(write(sse))
  /\ UNCHANGED <<client, endpoint>>

\* reader.read() has settled: with a chunk, which is written; with done, after
\* which finally clears the heartbeat and the response is ended; or with an error,
\* after which finally clears the heartbeat and the outer catch writes and ends.
ReadResult(r) ==
  /\ sse.pc = "read"
  /\ sse' =
       CASE r = "chunk" -> [write(sse) EXCEPT !.chunks = @ + 1]
         [] r = "done" -> end(clearHeartbeat(sse))
         [] OTHER -> end(write(clearHeartbeat(sse)))
  /\ (r = "chunk" => sse.chunks < MaxChunks)
  /\ UNCHANGED <<client, endpoint>>

\* The heartbeat interval ticks: res.write(': heartbeat').
heartbeat ==
  /\ sse.heartbeat
  /\ sse' = write(sse)
  /\ UNCHANGED <<client, endpoint>>

\* The 'close' event of the request: the listener clears the heartbeat.
onClose ==
  /\ sse.pc \notin {"idle", "entry"}
  /\ sse.open
  /\ sse' = IF accepted(sse)
              THEN [clearHeartbeat(sse) EXCEPT !.open = FALSE]
              ELSE [sse EXCEPT !.open = FALSE]
  /\ UNCHANGED <<client, endpoint>>

InitSse ==
  /\ InitState
  /\ timed = FALSE
  /\ endpoint = NoEndpoint
  /\ sse \in {SseRequest(m, env, ps) : m \in Methods, env \in BOOLEAN, ps \in SUBSET SseParams}

NextSse ==
  \/ sseHandler
  \/ \E o \in FetchOutcomes : FetchResponse(o)
  \/ ErrorText
  \/ \E r \in {"chunk", "done", "error"} : ReadResult(r)
  \/ heartbeat
  \/ onClose

SpecSse == InitSse /\ [][NextSse]_vars

\* ================================================================== claims
\* The listeners and response handlers through which the transports deliver.
InboundOps == {"onopen", "onerror", "handleMessage", "handleParticipantChange",
               "typingStarted", "typingStopped", "PollResponse", "PollFail"}

\* C1: under either transport the message list never holds two entries with the
\* same id, however often the backend delivers one message id.
C1_UniqueIds ==
  \A i, j \in 1..Len(messages) : messages[i].id = messages[j].id => i = j

\* C2 (as stated): when the backend call of a send fails, the list after the catch
\* is the list as it was immediately before that sendMessage was called.
C2_ListAsBeforeSend ==
  [][\A s \in sends : (SendReject(s) /\ watched.id = s) => messages' = watched.before]_vars

\* C2 (amended): when the backend call of a send fails, the catch removes the
\* optimistic message of that send and keeps every other entry in its order; the
\* result is the list as it was before sendMessage was called whenever nothing but
\* that send has changed the list in between.
C2_FailedSendRemovesOwnMessage ==
  [][\A s \in sends : SendReject(s) =>
       /\ messages' = SelectSeq(messages, LAMBDA m : m.id # s)
       /\ s \notin Ids(messages')
       /\ (watched.id = s /\ RemoveId(messages, s) = watched.before /\ Len(messages) = Len(watched.before) + 1)
            => messages' = watched.before]_vars

\* C2 witness: a send has failed while another entry was in the list, and that
\* entry is still there.
C2_Witness == lastOp = "SendReject" /\ error = ErrSend /\ messages # <<>>

\* C3: once the backend call of a closeChat made with a session has returned, with
\* success or with failure, the list is empty and isConnected is false.
C3_CloseEndsCleared ==
  lastOp \in {"CloseResolve", "CloseReject"} => (messages = <<>> /\ ~isConnected)

\* C4: when the backend call of closeChat fails, the error is set and messages,
\* isConnected, isTyping, currentAgent and isLoading are cleared all the same.
C4_FailedCloseClears ==
  lastOp = "CloseReject" =>
    /\ error = ErrClose
    /\ messages = <<>>
    /\ ~isConnected
    /\ ~isTyping
    /\ currentAgent = NULL
    /\ ~isLoading

\* C5: from the call of closeChat on (while its backend call is outstanding and
\* after it has completed, up to a new startChat) no listener and no poll response
\* changes the state the hook returns.
C5_NoInboundAfterClose ==
  [][(numStarts = 1 /\ inits = {} /\ (closes > 0 \/ closed = "closeChat") /\ lastOp' \in InboundOps)
       => UNCHANGED <<messages, isConnected, isLoading, isTyping, currentAgent, error>>]_vars

\* C6: sendMessage called while credsRef holds nothing changes neither the list,
\* isLoading, error nor the inactivity timer, and issues no backend call.
C6_SendWithoutCredentials ==
  [][\A c \in Contents : (credsRef = NoRef /\ sendMessage(c)) =>
       UNCHANGED <<messages, isLoading, error, timeoutRef, timers, sends, isConnected, isTyping,
                   currentAgent>>]_vars

\* C6 witness: sendMessage has run while credsRef held nothing.
C6_Witness == lastOp = "sendMessage" /\ credsRef = NoRef

\* C7: after a closeChat has completed, or the inactivity timer has closed the
\* chat, credsRef holds nothing until the next startChat.
C7_NoCredentialsAfterClose == closed # NULL => credsRef = NoRef

\* C8: right after startChat has run up to its await of initialize(), messages is
\* empty, isTyping and isLoading are false, currentAgent and error are null, and
\* the initialize call of that start is the newest one pending.
C8_StartClears ==
  lastOp \in {"Mount", "startChat"} =>
    /\ messages = <<>>
    /\ ~isTyping
    /\ ~isLoading
    /\ currentAgent = NULL
    /\ error = NULL
    /\ \E i \in inits : i.k = numStarts

\* C8 witness: startChat has run on a hook that held a session already.
C8_Witness == lastOp = "startChat" /\ credsRef # NoRef

\* C9: at no time are two event sources connecting or open, nor two poll
\* intervals running.
C9_OneLiveTransport == Cardinality(LiveSources) <= 1 /\ Cardinality(intervals) <= 1

\* C10: when initialize() fails, the catch of startChat sets the error, sets
\* isConnected false, makes no event source, starts no interval and no poll, stores
\* no credentials, and calls initialize() no more.
C10_FailedInitialize ==
  [][\A i \in inits : InitReject(i) =>
       /\ error' = ErrStart
       /\ ~isConnected'
       /\ LiveSources' \subseteq LiveSources
       /\ intervals' = intervals
       /\ polls' = polls
       /\ credsRef' = credsRef
       /\ eventSourceRef' = eventSourceRef
       /\ inits' = inits \ {i}
       /\ numStarts' = numStarts]_vars

\* C10 witness: an initialize() has failed and no transport is there.
C10_Witness ==
  lastOp = "InitReject" /\ error = ErrStart /\ LiveSources = {} /\ intervals = {}

\* C11: credentials are stored and a transport is started only from an initialize
\* response that holds accessToken, conversationId, orgId and lastEventId.
C11_IncompleteResponseFailsStart ==
  (credsRef # NoRef \/ LiveSources # {} \/ intervals # {}) => RequiredFields \subseteq credsFields

\* C12, second half: over the simulated clock, once a connected session with
\* credentials has been quiet for more than the timeout, the inactivity timer's
\* callback has issued its close call.
C12_WatchdogRunsAfterTimeout ==
  (isConnected /\ credsRef # NoRef /\ quiet > TimeoutTicks) =>
    (wdCalls > 0 \/ lastOp \in {"TimeoutCloseResolve", "TimeoutCloseReject"})

\* C13: when a closeChat has completed, no inactivity timer is pending.
C13_NoTimerAfterClose == lastOp = "CloseResolve" => timers = {}

\* C14: when the inactivity timer fires while credsRef holds credentials and
\* isConnected is true at that time, its callback issues the close call; when that
\* call succeeds isConnected becomes false and the one system message "Chat ended
\* due to inactivity" is appended; when it fails messages, isConnected and error
\* stay as they are.
C14_WatchdogFires ==
  [][/\ (lastOp' = "timeoutFired" /\ credsRef # NoRef /\ isConnected) => wdCalls' = wdCalls + 1
     /\ TimeoutCloseResolve =>
          /\ ~isConnected'
          /\ Len(messages') = Len(messages) + 1
          /\ SubSeq(messages', 1, Len(messages)) = messages
          /\ messages'[Len(messages')].type = "system"
          /\ messages'[Len(messages')].content = InactivityText
     /\ TimeoutCloseReject => UNCHANGED <<messages, isConnected, error>>]_vars

\* C15: a typing-started event that arrives while isLoading is true leaves
\* isTyping as it is, and one that arrives while isLoading is false sets isTyping
\* true; the isLoading that counts is the one at the time the event arrives.
C15_TypingStartedReadsPending ==
  [][\A k \in Starts : typingStarted(k) => isTyping' = (IF isLoading THEN isTyping ELSE TRUE)]_vars

\* C16: every typing-stopped event leaves isTyping false, and every step of
\* handleMessage or of a poll response that adds an agent message to the list
\* leaves isTyping and isLoading false.
C16_AgentMessageClearsFlags ==
  [][/\ lastOp' = "typingStopped" => ~isTyping'
     /\ (lastOp' \in {"handleMessage", "PollResponse"} /\ Len(messages') > Len(messages))
          => (~isTyping' /\ ~isLoading')]_vars

\* The reference of C17 for one entry, on the roster and list so far: an add of a
\* bot or agent role sets the agent and appends the join message, a remove of an
\* agent role clears the agent and appends the leave message, any other entry
\* changes nothing.
referenceEntry(e, st) ==
  IF e.operation = "add" /\ toLowerCase(e.role) \in {"chatbot", "agent"}
    THEN [agent |-> e.displayName,
          msgs |-> Append(st.msgs, Message(randomUUID(st.msgs), "system",
                                           JoinedText(e.displayName)))]
  ELSE IF e.operation = "remove" /\ toLowerCase(e.role) = "agent"
    THEN [agent |-> NULL,
          msgs |-> Append(st.msgs, Message(randomUUID(st.msgs), "system",
                                           LeftText(e.displayName)))]
  ELSE st

RECURSIVE referenceEntries(_, _)
referenceEntries(entries, st) ==
  IF entries = <<>> THEN st
  ELSE referenceEntries(Tail(entries), referenceEntry(Head(entries), st))

\* C17: a participant-changed event of well-formed entries leaves currentAgent
\* and the list as the reference applied entry by entry, in order, gives them.
C17_ParticipantReference ==
  [][\A k \in Starts : \A es \in Batches(ParticipantEntries) :
       (handleParticipantChange(k, es) /\ \A n \in 1..Len(es) : es[n].ok) =>
         LET ref == referenceEntries(es, [agent |-> currentAgent, msgs |-> messages]) IN
           currentAgent' = ref.agent /\ messages' = ref.msgs]_vars

\* C18: an error of the event source, and a poll fetch that fails, leave
\* isConnected false and error set, and change neither the list nor credsRef.
C18_TransportFailure ==
  [][lastOp' \in {"onerror", "PollFail"} =>
       (~isConnected' /\ error' # NULL /\ UNCHANGED <<messages, credsRef>>)]_vars

\* C19: when a send fails, the catch removes the message with the id that this
\* sendMessage call made and no other: the messages of the other sends still in
\* flight stay, whatever their content, and the entries that remain keep their
\* order.
C19_RollbackSelectsById ==
  [][\A s \in sends : SendReject(s) =>
       /\ s \notin Ids(messages')
       /\ \A t \in sends \ {s} : t \in Ids(messages) => t \in Ids(messages')
       /\ Len(messages') >= Len(messages) - 1
       /\ \A a, b \in 1..Len(messages) :
            (a < b /\ messages[a].id # s /\ messages[b].id # s) =>
              \E c, d \in 1..Len(messages') :
                c < d /\ messages'[c] = messages[a] /\ messages'[d] = messages[b]]_vars

\* C19 witness: a send has failed and the message of another send still in
\* flight, of the same content, is in the list.
C19_Witness ==
  /\ lastOp = "SendReject"
  /\ \E t \in sends : \E n \in 1..Len(messages) :
       messages[n].id = t /\ messages[n].content = "Hi"

\* C20: a failed send sets error to "Failed to send message" and clears
\* isLoading; isConnected, the credentials, the event source and the polling
\* interval are as they were before the failure.
C20_SendFailureKeepsSession ==
  [][\A s \in sends : SendReject(s) =>
       /\ error' = ErrSend
       /\ ~isLoading'
       /\ UNCHANGED <<isConnected, credsRef, credsFields, eventSourceRef,
                      eventSources, pollingRef, intervals>>]_vars

\* C20 witness: a send has failed in a connected session whose transport runs.
C20_Witness ==
  /\ lastOp = "SendReject"
  /\ error = ErrSend
  /\ isConnected
  /\ credsRef # NoRef
  /\ (LiveSources # {} \/ intervals # {})

\* C21: ingesting a poll response is idempotent: the list a poll response leaves
\* is the list that ingesting the same entries once more yields, whichever poll
\* cycle delivered them and whatever was in the list before.
C21_PollIngestIdempotent ==
  [][\A c \in Starts : \A es \in Batches(PollEntries(c)) :
       PollResponse(c, es) => ingest(messages', botEntries(es)).msgs = messages']_vars

\* C21 witness: a poll response has put an agent message into the list while
\* another poll cycle of the same conversation is still in flight.
C21_Witness ==
  /\ lastOp = "PollResponse"
  /\ \E c \in Starts :
       /\ polls[c] > 0
       /\ \E n \in 1..Len(messages) : messages[n].id = BackendId(c, 1)

\* C22: the initialize endpoint sends at most one response to a request; a 200 to
\* a GET carries the access token and the conversation id and is sent only when
\* the access-token request and the conversation request both succeeded; when
\* one of the two failed the response is a 500 "Failed to initialize chat".
C22_InitializeEndpoint ==
  /\ Len(endpoint.sent) <= 1
  /\ \A n \in 1..Len(endpoint.sent) :
       LET r == endpoint.sent[n] IN
         /\ (endpoint.method = "GET" /\ r.status = 200) =>
              /\ endpoint.token = "ok"
              /\ endpoint.conversation = "ok"
              /\ {"accessToken", "conversationId"} \subseteq r.fields
         /\ (endpoint.token \in TokenOutcomes \ {"ok"}
               \/ endpoint.conversation \in ConversationOutcomes \ {"ok"}) =>
              r = Response(500, {}, FailText)

C24_ActivityResetsWatchdog ==
  [][(/\ isConnected
      /\ credsRef # NoRef
      /\ \/ lastOp' \in {"typingStarted", "typingStopped"}
         \/ lastOp' \in {"handleMessage", "PollResponse"} /\ Len(messages') > Len(messages))
       => timers' # {}]_vars

\* C25: a participant-changed event, the opening of the event source and an
\* error of the event source leave the inactivity timer as it was.
C25_ConnectionEventsKeepTimer ==
  [][lastOp' \in {"handleParticipantChange", "onopen", "onerror"}
       => UNCHANGED <<timeoutRef, timers>>]_vars

\* C26: when the event source of a session has opened, and when initialize() has
\* resolved and polling has begun, an inactivity timer is pending.
C26_TimerArmedAtConnection ==
  (lastOp = "onopen" \/ (lastOp = "InitResolve" /\ variant = "poll")) => timers # {}

\* C27: at most one inactivity timer is pending, and a pending timer is the one
\* whose handle timeoutRef holds: a timer that a later resetTimeout, of whichever
\* render, has superseded is cancelled and cannot fire.
C27_OneTimerPending ==
  /\ Cardinality(timers) <= 1
  /\ \A t \in timers : t.h = timeoutRef

\* C27 witness: a second sendMessage has reset the timer while the call of the
\* first is still in flight, and one timer is pending.
C27_Witness ==
  /\ lastOp = "sendMessage"
  /\ Cardinality(sends) = 2
  /\ Cardinality(timers) = 1

\* C28: isConnected is false while the most recent startChat is still awaiting
\* initialize().
C28_ConnectedOnlyWhenStarted ==
  (\E i \in inits : i.k = numStarts) => ~isConnected

\* C29: in the poll variant isTyping is false and currentAgent is null in every
\* state, and the list holds no system message that tells of a participant who
\* joined or left, whatever the polls return.
C29_PollHasNoTypingNorAgent ==
  variant = "poll" =>
    /\ ~isTyping
    /\ currentAgent = NULL
    /\ \A n \in 1..Len(messages) :
         messages[n].type = "system" =>
           \A name \in Names : messages[n].content \notin {JoinedText(name), LeftText(name)}

\* C29 witness: in the poll variant a poll response has been ingested and the list
\* holds an agent message.
C29_Witness ==
  /\ variant = "poll"
  /\ lastOp = "PollResponse"
  /\ \E n \in 1..Len(messages) : messages[n].type = "ai"

\* C30: every agent message in the list is one of the conversation that the most
\* recent startChat began: startChat empties the list, and nothing that the
\* transport of an earlier session fetched or delivered is added afterwards.
C30_NoMessageOfPreviousSession ==
  \A n \in 1..Len(messages) :
    messages[n].type = "ai" =>
      \E i \in 1..MaxBackend : messages[n].id = BackendId(numStarts, i)

\* The steps that may take entries out of the list: the rollback of a failed send
\* and the clearing by startChat (the mount effect's included) and closeChat.
RemovingOps == {"SendReject", "startChat", "Mount", "CloseResolve"}

\* C31 (as stated): every step other than those of RemovingOps leaves the list as
\* it is or appends exactly one entry at the tail.
C31_AppendsOneAtTail ==
  [][lastOp' \notin RemovingOps =>
       \/ messages' = messages
       \/ /\ Len(messages') = Len(messages) + 1
          /\ SubSeq(messages', 1, Len(messages)) = messages]_vars

\* C31 (amended): every step other than those of RemovingOps keeps the stored
\* entries, unchanged and in their order, as the head of the list: what it adds
\* comes after them, one entry or several.
C31_AppendOnly ==
  [][lastOp' \notin RemovingOps =>
       /\ Len(messages') >= Len(messages)
       /\ SubSeq(messages', 1, Len(messages)) = messages]_vars

\* C31 witness: an agent message has come in behind an entry that was in the list.
C31_Witness ==
  /\ lastOp \in {"handleMessage", "PollResponse"}
  /\ Len(messages) >= 2
  /\ messages[Len(messages)].type = "ai"

\* C32: a CONVERSATION_MESSAGE event whose data or entry payload does not parse,
\* or lacks its fields, leaves messages, isTyping, isLoading, isConnected and the
\* inactivity timer as they were.
C32_MalformedMessageDropped ==
  [][\A k \in Starts : \A ev \in MessageEvents(k) :
       (ev.shape \in {"badData", "badPayload"} /\ handleMessage(k, ev)) =>
         UNCHANGED <<messages, isTyping, isLoading, isConnected, timeoutRef, timers>>]_vars

\* C33: a CONVERSATION_PARTICIPANT_CHANGED event in which an entry is malformed,
\* also after well-formed entries, leaves currentAgent and messages as they were.
C33_MalformedParticipantsDropped ==
  [][\A k \in Starts : \A es \in Batches(ParticipantEntries) :
       ((\E n \in 1..Len(es) : ~es[n].ok) /\ handleParticipantChange(k, es)) =>
         UNCHANGED <<currentAgent, messages>>]_vars

\* C34: in the stream variant the render that follows a state change closes no
\* event source and clears no timer: when onopen has run (it sets isConnected and
\* resets the timer), an event source is open and a timer is pending.
C34_SourceSurvivesRender ==
  lastOp = "onopen" =>
    /\ \E k \in Starts : eventSources[k].state = "open"
    /\ timers # {}

\* C35: in the poll variant a poll response that adds no message to the list
\* leaves isLoading true.
C35_PendingUntilNewMessage ==
  [][(variant = "poll" /\ isLoading /\ lastOp' = "PollResponse" /\ messages' = messages)
       => isLoading']_vars

\* C36: in the poll variant, of a hook that started once and while no closeChat
\* awaits its backend call, isConnected is true exactly when a poll interval is
\* running.
C36_ConnectedIffPolling ==
  (variant = "poll" /\ numStarts = 1 /\ closes = 0) => (isConnected <=> intervals # {})

\* C37: a closeChat call that has run to its end has called onClosed: when it
\* returned at once for want of credentials, when its backend call failed and
\* when its backend call succeeded.
C37_OnClosedInvoked ==
  (\/ lastOp = "closeChat" /\ credsRef = NoRef
   \/ lastOp \in {"CloseReject", "CloseResolve"}) => onClosed

\* C38: what was begun before a startChat and ends right after it (a send that
\* fails, a close call of the inactivity timer that resolves) leaves messages,
\* error, isLoading and isConnected of the new session as startChat left them.
C38_OldOutcomeKeepsNewSession ==
  [][(lastOp = "startChat" /\ lastOp' \in {"SendReject", "TimeoutCloseResolve"})
       => UNCHANGED <<messages, error, isLoading, isConnected>>]_vars

\* The ids under which the backend returns what is no Chatbot message: the
\* user's own entry as a poll returns it, and an event of another sender.
EchoIds == {BackendId(c, 0) : c \in Starts} \cup {0}

\* C39: a send is in the list as one user message at most, and the entry with
\* which the backend echoes it, in a poll or on the event source, is never added.
C39_NoEchoOfOwnMessage ==
  /\ \A m, n \in 1..Len(messages) :
       (messages[m].type = "user" /\ messages[m].id = messages[n].id) => m = n
  /\ \A n \in 1..Len(messages) : messages[n].id \notin EchoIds

\* C39 witness: the backend has accepted a send and a transport has delivered
\* since; the list holds the one user message.
C39_Witness ==
  /\ lastOp \in {"PollResponse", "handleMessage"}
  /\ sends = {}
  /\ Cardinality({n \in 1..Len(messages) : messages[n].type = "user"}) = 1

\* C40: once the SSE proxy has ended its response the heartbeat interval is
\* cleared, and no heartbeat has been written to an ended response.
C40_HeartbeatClearedAtEnd ==
  /\ sse.ended => ~sse.heartbeat
  /\ ~sse.late

====
